---- MODULE Spec2Model ----
(***************************************************************************)
(* State-machine model of the snagg-bsky-bot publish run: configuration,   *)
(* login, the getPostText variants (chained generate -> random -> fixed    *)
(* fallback, generate-only, URL-returning random), Bot.post (both          *)
(* variants), Bot.run and the two entry scripts.                           *)
(*                                                                         *)
(* A JavaScript string is a sequence of symbols; a string literal of the   *)
(* source is one symbol.  Every await on a network operation is a control  *)
(* location: the request is issued by the step that reaches the location   *)
(* and the step that leaves it draws the outcome.                          *)
(***************************************************************************)
EXTENDS Integers, Sequences, FiniteSets, TLC

VARIABLES runner, variant, dryRun, env, input,
          pc, phase, auth, response, generated, random, meme, postData, record,
          tasks, trace, uploads, posts, exit, out, log

vars == <<runner, variant, dryRun, env, input,
          pc, phase, auth, response, generated, random, meme, postData, record,
          tasks, trace, uploads, posts, exit, out, log>>

(***************************************************************************)
(* Bounds                                                                  *)
(***************************************************************************)
MaxTags == 4
MaxImages == 2

(***************************************************************************)
(* JavaScript values                                                       *)
(***************************************************************************)
Undefined == <<"<undefined>">>
NULL == [null |-> TRUE]
Thrown == [thrown |-> TRUE]
Truthy(s) == s # Undefined /\ s # <<>>
Or(a, b) == IF Truthy(a) THEN a ELSE b
Whitespace == {" ", "\t", "\n"}

RECURSIVE Join(_, _)
Join(parts, sep) ==
  IF parts = <<>> THEN <<>>
  ELSE IF Len(parts) = 1 THEN parts[1]
  ELSE parts[1] \o sep \o Join(Tail(parts), sep)

PercentChar(a, b) ==
  IF a = "2" /\ b = "0" THEN " "
  ELSE IF a = "2" /\ b = "5" THEN "%"
  ELSE ""

RECURSIVE Decodable(_)
Decodable(s) ==
  IF s = <<>> THEN TRUE
  ELSE IF Head(s) = "%"
       THEN Len(s) >= 3 /\ PercentChar(s[2], s[3]) # ""
            /\ Decodable(SubSeq(s, 4, Len(s)))
       ELSE Decodable(Tail(s))

RECURSIVE decodeURIComponent(_)
decodeURIComponent(s) ==
  IF s = <<>> THEN <<>>
  ELSE IF Head(s) = "%"
       THEN <<PercentChar(s[2], s[3])>> \o decodeURIComponent(SubSeq(s, 4, Len(s)))
       ELSE <<Head(s)>> \o decodeURIComponent(Tail(s))

(***************************************************************************)
(* Configuration (config.ts)                                               *)
(***************************************************************************)
EnvStrings == {Undefined, <<>>, <<"v">>}
Envs == [BSKY_HANDLE : EnvStrings, BSKY_PASSWORD : EnvStrings,
         SNAGG_API_KEY : {Undefined, <<"k">>}]

envSchemaParses(e) ==
  \A k \in DOMAIN e : e[k] = Undefined \/ Len(e[k]) >= 1

\* The account built as soon as the handle is set, whatever the password.
bskyAccountHandleOnly(e) ==
  IF Truthy(e.BSKY_HANDLE)
  THEN [identifier |-> e.BSKY_HANDLE, password |-> e.BSKY_PASSWORD]
  ELSE NULL

bskyAccount(e) ==
  IF Truthy(e.BSKY_HANDLE) /\ Truthy(e.BSKY_PASSWORD)
  THEN [identifier |-> e.BSKY_HANDLE, password |-> e.BSKY_PASSWORD]
  ELSE NULL

apiUrl == <<"https://snagg.meme/api/v1">>
apiKey == env.SNAGG_API_KEY

(***************************************************************************)
(* Requests.  url is the request target, key the X-API-Key header          *)
(* (Undefined when the header is not attached), result the outcome:        *)
(* pending while in flight, then ok, notOk (non-2xx) or reject.            *)
(***************************************************************************)
Request(op, url, key) == [op |-> op, url |-> url, key |-> key, result |-> "pending"]

\* The request the sequential code is waiting for is the last one it issued.
Settle(result) == [trace EXCEPT ![Len(trace)].result = result]

loginRequest == Request("login", <<"bsky">>, Undefined)
generateRequest ==
  Request("generate", apiUrl \o <<"/memes/generate/image">>,
          IF Truthy(apiKey) THEN apiKey ELSE Undefined)
randomRequest ==
  Request("listing", apiUrl \o <<"/random?count=1">>,
          IF Truthy(apiKey) THEN apiKey ELSE Undefined)
\* The image download carrying the API key like the content-API requests.
imageRequestWithKey(url) ==
  Request("image", url, IF Truthy(apiKey) THEN apiKey ELSE Undefined)

imageRequest(url) == Request("image", url, Undefined)

(***************************************************************************)
(* fetchGeneratedMeme (getPostText.ts 113-170) as a function of the        *)
(* response to POST {apiUrl}/memes/generate/image.                         *)
(***************************************************************************)
HeaderValues == {Undefined, <<>>, <<"A">>, <<"A", "%", "2", "0", "B">>, <<"%", "Z">>}
GeneratedOk ==
  [kind : {"ok"}, textOk : {TRUE}, bodyOk : BOOLEAN,
   contentType : {Undefined, <<"image/png">>},
   top : HeaderValues, bottom : HeaderValues, template : HeaderValues]
GenerateResponses ==
  [kind : {"reject"}, textOk : {TRUE}, bodyOk : {TRUE}, contentType : {Undefined},
   top : {Undefined}, bottom : {Undefined}, template : {Undefined}]
  \cup
  [kind : {"notOk"}, textOk : BOOLEAN, bodyOk : {TRUE}, contentType : {Undefined},
   top : {Undefined}, bottom : {Undefined}, template : {Undefined}]
  \cup GeneratedOk

\* The two captions joined whether or not both are present.
generatedPostTextAlwaysJoins(topText, bottomText) ==
  IF Truthy(topText) \/ Truthy(bottomText)
  THEN topText \o <<" / ">> \o bottomText
  ELSE <<"Fresh meme from snagg.meme (U+1F525)">>

generatedPostText(topText, bottomText) ==
  IF Truthy(topText) /\ Truthy(bottomText)
  THEN topText \o <<" / ">> \o bottomText
  ELSE IF Truthy(topText) \/ Truthy(bottomText)
       THEN Or(topText, bottomText)
       ELSE <<"Fresh meme from snagg.meme (U+1F525)">>

\* The alt text with the top caption pushed before the template name.
generatedAltTopFirst(templateName, topText, bottomText) ==
  LET altParts ==
        <<(<<"Meme">>)>>
        \o (IF Truthy(topText) THEN <<(<<"Top text: \"">> \o topText \o <<"\"">>)>> ELSE <<>>)
        \o (IF Truthy(templateName) THEN <<(<<"(">> \o templateName \o <<")">>)>> ELSE <<>>)
        \o (IF Truthy(bottomText) THEN <<(<<"Bottom text: \"">> \o bottomText \o <<"\"">>)>> ELSE <<>>)
  IN Join(altParts, <<" - ">>)

generatedAlt(templateName, topText, bottomText) ==
  LET altParts ==
        <<(<<"Meme">>)>>
        \o (IF Truthy(templateName) THEN <<(<<"(">> \o templateName \o <<")">>)>> ELSE <<>>)
        \o (IF Truthy(topText) THEN <<(<<"Top text: \"">> \o topText \o <<"\"">>)>> ELSE <<>>)
        \o (IF Truthy(bottomText) THEN <<(<<"Bottom text: \"">> \o bottomText \o <<"\"">>)>> ELSE <<>>)
  IN Join(altParts, <<" - ">>)

generatedHeadersOk(resp) ==
  /\ Decodable(Or(resp.top, <<>>))
  /\ Decodable(Or(resp.bottom, <<>>))
  /\ Decodable(Or(resp.template, <<>>))

\* The try block of fetchGeneratedMeme (114-165): Thrown stands for an
\* exception raised inside it (rejected fetch, rejected body read, URIError).
generateTry(resp) ==
  IF resp.kind = "reject" THEN Thrown
  ELSE IF resp.kind = "notOk" THEN (IF resp.textOk THEN NULL ELSE Thrown)
  ELSE IF ~resp.bodyOk THEN Thrown
  ELSE IF ~generatedHeadersOk(resp) THEN Thrown
  ELSE LET topText == decodeURIComponent(Or(resp.top, <<>>))
           bottomText == decodeURIComponent(Or(resp.bottom, <<>>))
           templateName == decodeURIComponent(Or(resp.template, <<>>))
       IN [text |-> generatedPostText(topText, bottomText),
           imageBuffer |-> "generatedBytes",
           imageAlt |-> generatedAlt(templateName, topText, bottomText),
           imageMimeType |-> Or(resp.contentType, <<"image/webp">>)]

\* The catch clause left out: the exception leaves fetchGeneratedMeme.
fetchGeneratedMemeNoCatch(resp) == generateTry(resp)

\* try ... catch (error) { return null } (114, 166-169)
fetchGeneratedMeme(resp) ==
  LET r == generateTry(resp)
  IN IF r = Thrown THEN NULL ELSE r

(***************************************************************************)
(* The random listing and fetchRandomMeme (getPostText.ts 172-237).        *)
(***************************************************************************)
TagLimit == 3
TagList(n) == [i \in 1..n |-> IF i % 2 = 1 THEN <<"a", " ", "b">> ELSE <<"c">>]
\* Listing entries: every combination of the fields fetchRandomMeme reads
\* (title, ai_alt_text, description, tags), every combination of those the
\* URL-returning getPostText reads (title, watermarked_image_url, alt_text,
\* description), and entries whose tags are absent or not an array of strings.
Memes ==
  [title : {Undefined, <<>>, <<"T">>}, slug : {<<"slug">>},
   image_url : {<<"https://cdn/original">>},
   watermarked_image_url : {Undefined},
   ai_alt_text : {Undefined, <<>>, <<"AI">>}, alt_text : {Undefined},
   description : {Undefined, <<>>, <<"D">>},
   tagsKind : {"array"}, tags : {TagList(n) : n \in 0..MaxTags}]
  \cup
  [title : {Undefined, <<>>, <<"T">>}, slug : {<<"slug">>},
   image_url : {<<"https://cdn/original">>},
   watermarked_image_url : {Undefined, <<"https://cdn/watermarked">>},
   ai_alt_text : {Undefined}, alt_text : {Undefined, <<"ALT">>},
   description : {Undefined, <<"D">>},
   tagsKind : {"array"}, tags : {TagList(2)}]
  \cup
  [title : {<<"T">>}, slug : {<<"slug">>},
   image_url : {<<"https://cdn/original">>},
   watermarked_image_url : {Undefined},
   ai_alt_text : {Undefined}, alt_text : {Undefined},
   description : {Undefined},
   tagsKind : {"absent", "malformed"}, tags : {<<>>}]

\* The entry after the first one in a listing of two.
SecondMeme ==
  [title |-> <<"T2">>, slug |-> <<"slug2">>,
   image_url |-> <<"https://cdn/second">>,
   watermarked_image_url |-> Undefined,
   ai_alt_text |-> Undefined, alt_text |-> Undefined,
   description |-> Undefined,
   tagsKind |-> "array", tags |-> <<>>]

ListingResponses ==
  [kind : {"reject", "notOk"}, jsonOk : {TRUE}, error : {Undefined},
   hasMemes : {FALSE}, memes : {<<>>}]
  \cup
  [kind : {"ok"}, jsonOk : BOOLEAN, error : {Undefined},
   hasMemes : BOOLEAN, memes : {<<>>}]
  \cup
  [kind : {"ok"}, jsonOk : {TRUE}, error : {Undefined, <<"boom">>},
   hasMemes : {TRUE}, memes : {<<m>> : m \in Memes}]
  \cup
  [kind : {"ok"}, jsonOk : {TRUE}, error : {Undefined},
   hasMemes : {TRUE}, memes : {<<m, SecondMeme>> : m \in Memes}]

ImageResponses ==
  [kind : {"reject", "notOk"}, bodyOk : {TRUE}, contentType : {Undefined}]
  \cup
  [kind : {"ok"}, bodyOk : BOOLEAN, contentType : {Undefined, <<"image/png">>}]

stripWhitespace(t) == SelectSeq(t, LAMBDA c : c \notin Whitespace)

\* The text without the default for an empty or missing title.
randomPostTextNoDefault(m) ==
  LET tags == IF m.tagsKind = "array"
              THEN SubSeq(m.tags, 1, IF Len(m.tags) < TagLimit THEN Len(m.tags) ELSE TagLimit)
              ELSE <<>>
      hashtags == [i \in 1..Len(tags) |-> <<"#">> \o stripWhitespace(tags[i])]
      title == Or(m.title, <<>>)
  IN IF Len(hashtags) > 0
     THEN title \o <<"\n\n">> \o Join(hashtags, <<" ">>)
     ELSE title

\* The text with every tag of the entry, without slice(0, 3).
randomPostTextNoLimit(m) ==
  LET tags == IF m.tagsKind = "array" THEN m.tags ELSE <<>>
      hashtags == [i \in 1..Len(tags) |-> <<"#">> \o stripWhitespace(tags[i])]
      title == Or(m.title, <<"Fresh meme from snagg.meme">>)
  IN IF Len(hashtags) > 0
     THEN title \o <<"\n\n">> \o Join(hashtags, <<" ">>)
     ELSE title

randomPostText(m) ==
  LET tags == IF m.tagsKind = "array"
              THEN SubSeq(m.tags, 1, IF Len(m.tags) < TagLimit THEN Len(m.tags) ELSE TagLimit)
              ELSE <<>>
      hashtags == [i \in 1..Len(tags) |-> <<"#">> \o stripWhitespace(tags[i])]
      title == Or(m.title, <<"Fresh meme from snagg.meme">>)
  IN IF Len(hashtags) > 0
     THEN title \o <<"\n\n">> \o Join(hashtags, <<" ">>)
     ELSE title

IsMeme(r) == "image_url" \in DOMAIN r

\* The listing read from its last entry instead of memes[0].
randomListingTryLastEntry(resp) ==
  IF resp.kind = "reject" THEN Thrown
  ELSE IF resp.kind = "notOk" THEN NULL
  ELSE IF ~resp.jsonOk THEN Thrown
  ELSE IF ~resp.hasMemes \/ Len(resp.memes) = 0 THEN NULL
  ELSE resp.memes[Len(resp.memes)]

\* The try block of fetchRandomMeme up to the image download (174-207):
\* the first listing entry, NULL for return null, Thrown for an exception.
randomListingTry(resp) ==
  IF resp.kind = "reject" THEN Thrown
  ELSE IF resp.kind = "notOk" THEN NULL
  ELSE IF ~resp.jsonOk THEN Thrown
  ELSE IF ~resp.hasMemes \/ Len(resp.memes) = 0 THEN NULL
  ELSE resp.memes[1]

\* The image download used whatever its status.
randomImageTryIgnoresStatus(m, resp) ==
  IF resp.kind = "reject" THEN Thrown
  ELSE IF ~resp.bodyOk THEN Thrown
  ELSE IF m.tagsKind = "malformed" THEN Thrown
  ELSE [text |-> randomPostText(m),
        imageBuffer |-> "randomBytes",
        imageAlt |-> Or(m.ai_alt_text, Or(m.description, m.title)),
        imageMimeType |-> Or(resp.contentType, <<"image/webp">>)]

\* The alt text with the plain description preferred to the AI description.
randomImageTryDescriptionFirst(m, resp) ==
  IF resp.kind = "reject" THEN Thrown
  ELSE IF resp.kind = "notOk" THEN NULL
  ELSE IF ~resp.bodyOk THEN Thrown
  ELSE IF m.tagsKind = "malformed" THEN Thrown
  ELSE [text |-> randomPostText(m),
        imageBuffer |-> "randomBytes",
        imageAlt |-> Or(m.description, Or(m.ai_alt_text, m.title)),
        imageMimeType |-> Or(resp.contentType, <<"image/webp">>)]

\* A refused image download answered with the text and alt text of the
\* entry, without image bytes.
randomImageTryAltWithoutBytes(m, resp) ==
  IF resp.kind = "reject" THEN Thrown
  ELSE IF resp.kind = "notOk"
  THEN [text |-> randomPostText(m),
        imageAlt |-> Or(m.ai_alt_text, Or(m.description, m.title))]
  ELSE IF ~resp.bodyOk THEN Thrown
  ELSE IF m.tagsKind = "malformed" THEN Thrown
  ELSE [text |-> randomPostText(m),
        imageBuffer |-> "randomBytes",
        imageAlt |-> Or(m.ai_alt_text, Or(m.description, m.title)),
        imageMimeType |-> Or(resp.contentType, <<"image/webp">>)]

\* The rest of the try block (207-232) for listing entry m.
randomImageTry(m, resp) ==
  IF resp.kind = "reject" THEN Thrown
  ELSE IF resp.kind = "notOk" THEN NULL
  ELSE IF ~resp.bodyOk THEN Thrown
  ELSE IF m.tagsKind = "malformed" THEN Thrown
  ELSE [text |-> randomPostText(m),
        imageBuffer |-> "randomBytes",
        imageAlt |-> Or(m.ai_alt_text, Or(m.description, m.title)),
        imageMimeType |-> Or(resp.contentType, <<"image/webp">>)]

\* The catch clause left out: the exception leaves fetchRandomMeme.
fetchRandomMemeNoCatch(r) == r

\* catch (error) { return null } (233-236)
fetchRandomMemeCatch(r) == IF r = Thrown THEN NULL ELSE r

\* The fallback text of the URL-returning variant in place of the chained one.
FallbackOtherVariant == [text |-> <<"Check out snagg.meme for some great memes!">>]

FallbackChained == [text |-> <<"Check out snagg.meme for fresh memes! (U+1F525)">>]

(***************************************************************************)
(* The generate-only getPostText (earlier lib/getPostText.ts).             *)
(***************************************************************************)
generateOnlyTry(resp) ==
  IF resp.kind # "ok" \/ ~resp.bodyOk \/ ~generatedHeadersOk(resp) THEN Thrown
  ELSE LET topText == decodeURIComponent(Or(resp.top, <<>>))
           bottomText == decodeURIComponent(Or(resp.bottom, <<>>))
           templateName == decodeURIComponent(Or(resp.template, <<>>))
       IN [text |-> generatedPostText(topText, bottomText),
           imageBuffer |-> "generatedBytes",
           imageAlt |-> generatedAlt(templateName, topText, bottomText)]

getPostTextGenerate(resp) ==
  LET r == generateOnlyTry(resp)
  IN IF r = Thrown
     THEN [text |-> <<"Check out snagg.meme for fresh memes! (U+1F525)">>]
     ELSE r

(***************************************************************************)
(* The URL-returning random getPostText (earlier lib/getPostText.ts).      *)
(***************************************************************************)
urlRandomRequest ==
  Request("listing", apiUrl \o <<"/random">>,
          IF Truthy(apiKey) THEN apiKey ELSE Undefined)

\* The original image preferred to the watermarked one.
urlRandomTryOriginalFirst(resp) ==
  IF resp.kind # "ok" \/ ~resp.jsonOk \/ Truthy(resp.error)
     \/ ~resp.hasMemes \/ Len(resp.memes) = 0
  THEN Thrown
  ELSE LET m == resp.memes[1]
       IN [text |-> Or(m.title, <<"Check out this meme from snagg.meme!">>),
           imageUrl |-> Or(m.image_url, m.watermarked_image_url),
           imageAlt |-> Or(m.alt_text, Or(m.description,
                           Or(m.title, <<"Meme from snagg.meme">>))),
           externalUrl |-> <<"https://snagg.meme/meme/">> \o m.slug]

\* The error field of the listing not looked at.
urlRandomTryIgnoresError(resp) ==
  IF resp.kind # "ok" \/ ~resp.jsonOk
     \/ ~resp.hasMemes \/ Len(resp.memes) = 0
  THEN Thrown
  ELSE LET m == resp.memes[1]
       IN [text |-> Or(m.title, <<"Check out this meme from snagg.meme!">>),
           imageUrl |-> Or(m.watermarked_image_url, m.image_url),
           imageAlt |-> Or(m.alt_text, Or(m.description,
                           Or(m.title, <<"Meme from snagg.meme">>))),
           externalUrl |-> <<"https://snagg.meme/meme/">> \o m.slug]

urlRandomTry(resp) ==
  IF resp.kind # "ok" \/ ~resp.jsonOk \/ Truthy(resp.error)
     \/ ~resp.hasMemes \/ Len(resp.memes) = 0
  THEN Thrown
  ELSE LET m == resp.memes[1]
       IN [text |-> Or(m.title, <<"Check out this meme from snagg.meme!">>),
           imageUrl |-> Or(m.watermarked_image_url, m.image_url),
           imageAlt |-> Or(m.alt_text, Or(m.description,
                           Or(m.title, <<"Meme from snagg.meme">>))),
           externalUrl |-> <<"https://snagg.meme/meme/">> \o m.slug]

getPostTextRandom(resp) ==
  LET r == urlRandomTry(resp)
  IN IF r = Thrown
     THEN [text |-> <<"Check out snagg.meme for some great memes!">>]
     ELSE r

(***************************************************************************)
(* Reports.  log holds what the run writes with console.error and the      *)
(* lines that print the address of a published post, each with the number  *)
(* of requests issued before it was written; the progress lines written    *)
(* with console.log are left out.                                          *)
(***************************************************************************)
Report(level, by, what, detail) ==
  [level |-> level, by |-> by, what |-> what, detail |-> detail, at |-> Len(trace)]

\* fetchGeneratedMeme writing nothing when it fails.
generateReportsSilent(resp) == <<>>

\* fetchGeneratedMeme 127-133 (status and error body) and 166-168 (catch).
generateReports(resp) ==
  IF resp.kind = "notOk" /\ resp.textOk
  THEN <<Report("error", "fetchGeneratedMeme", "status", <<"errorText">>)>>
  ELSE IF generateTry(resp) = Thrown
  THEN <<Report("error", "fetchGeneratedMeme", "exception", <<>>)>>
  ELSE <<>>

\* fetchRandomMeme 185-190, 195-198, 233-235
randomListingReports(resp) ==
  IF resp.kind = "notOk"
  THEN <<Report("error", "fetchRandomMeme", "status", <<>>)>>
  ELSE IF randomListingTry(resp) = Thrown
  THEN <<Report("error", "fetchRandomMeme", "exception", <<>>)>>
  ELSE IF randomListingTry(resp) = NULL
  THEN <<Report("error", "fetchRandomMeme", "noMemes", <<>>)>>
  ELSE <<>>

\* fetchRandomMeme 208-213, 233-235
randomImageReports(m, resp) ==
  IF resp.kind = "notOk"
  THEN <<Report("error", "fetchRandomMeme", "status", <<>>)>>
  ELSE IF randomImageTry(m, resp) = Thrown
  THEN <<Report("error", "fetchRandomMeme", "exception", <<>>)>>
  ELSE <<>>

\* getPostText 109, index 43-45
randomReturnReports ==
  IF random # NULL THEN <<>>
  ELSE IF phase = "first"
  THEN <<Report("error", "getPostText", "bothFailed", <<>>)>>
  ELSE <<Report("error", "index", "fallbackFailed", <<>>)>>

\* The generate-only getPostText: catch (error) { console.error(...) }
generateOnlyReports(resp) ==
  IF generateOnlyTry(resp) = Thrown
  THEN <<Report("error", "getPostText", "exception", <<>>)>>
  ELSE <<>>

\* The URL-returning getPostText: catch (error) { console.error(...) }
urlRandomReports(resp) ==
  IF urlRandomTry(resp) = Thrown
  THEN <<Report("error", "getPostText", "exception", <<>>)>>
  ELSE <<>>

\* index 33-34 (Post failed) and 47-48 (Fallback post failed); in the other
\* programs the rejection is not caught.
postThrowReports ==
  IF runner # "indexFallback" THEN <<>>
  ELSE IF phase = "first"
  THEN <<Report("error", "index", "postFailed", <<>>)>>
  ELSE <<Report("error", "index", "fallbackPostFailed", <<>>)>>

\* index 15 and 32 (Posted to Bluesky: uri), 42 (Fallback posted: uri)
postReturnReports ==
  IF runner \notin {"index", "indexFallback"} THEN <<>>
  ELSE IF phase = "first"
  THEN <<Report("log", "index", "posted", out)>>
  ELSE <<Report("log", "index", "fallbackPosted", out)>>

(***************************************************************************)
(* Programs: the entry script (index), the entry script with the           *)
(* last-resort fallback (indexFallback), Bot.run (BotRun), each with the   *)
(* getPostText variant it is given, and direct calls on a logged-in Bot of  *)
(* the record-dispatching Bot.post (postV1) and of Bot.post (postV2).      *)
(* BotRunV1 is Bot.run of the record-dispatching class, called once the    *)
(* configuration is loaded, with a getPostText that resolves with a string.*)
(***************************************************************************)
Variants == {"chained", "generate", "random"}
Runs == {"index", "indexFallback", "BotRun"}
Programs ==
  [runner : {"index"}, variant : Variants, dryRun : {FALSE}]
  \cup [runner : {"indexFallback"}, variant : {"chained"}, dryRun : {FALSE}]
  \cup [runner : {"BotRun"}, variant : Variants, dryRun : BOOLEAN]

NoInput == [shape |-> "none"]
NoResponse == [kind |-> "none"]
NoTasks == <<>>

\* Arguments of the record-dispatching Bot.post (bot.ts 31-39): a string, a
\* record with an embed key, or any other record.
InputImages ==
  [kind : {"Blob"}, url : {Undefined},
   blob : {[bytes |-> "inputBytes", type |-> <<"image/png">>]},
   alt : {Undefined, <<"alt">>}]
  \cup
  [kind : {"string"}, url : {<<"https://img">>},
   blob : {[bytes |-> "none", type |-> Undefined]},
   alt : {Undefined, <<"alt">>}]
  \cup
  [kind : {"other"}, url : {Undefined},
   blob : {[bytes |-> "none", type |-> Undefined]},
   alt : {Undefined}]
ImageLists == UNION {[1..n -> InputImages] : n \in 0..MaxImages}
InputEmbeds ==
  {NULL}
  \cup [type : {"app.bsky.embed.image"}, images : ImageLists]
  \cup [type : {"app.bsky.embed.external"},
        external : {[uri |-> <<"https://link">>, title |-> <<"t">>,
                     description |-> <<"d">>]}]
  \cup [type : {"app.bsky.embed.other"}]
PostInputs ==
  [shape : {"string", "plainRecord"}, text : {<<"hello">>}, embed : {NULL}]
  \cup [shape : {"embedRecord"}, text : {<<"hello">>}, embed : InputEmbeds]

\* Arguments of Bot.post (bot.ts 148): a PostData (part_003 28-35)
\* with each optional field set, empty or absent.
PostDatas ==
  [text : {<<"hello">>},
   imageUrl : {Undefined, <<>>, <<"https://img">>},
   imageAlt : {Undefined, <<"alt">>},
   externalUrl : {Undefined, <<"https://link">>},
   externalTitle : {Undefined, <<"t">>},
   externalDescription : {Undefined, <<"d">>}]
  \cup {[text |-> <<"hello">>]}

inputs == <<runner, variant, dryRun, env, input>>

Init ==
  /\ \/ /\ \E p \in Programs :
             /\ runner = p.runner
             /\ variant = p.variant
             /\ dryRun = p.dryRun
        /\ env \in Envs
        /\ input = NoInput
        /\ pc = "config"
        /\ auth = FALSE
        /\ postData = NULL
     \/ /\ runner = "postV1"
        /\ variant = "none"
        /\ dryRun = FALSE
        /\ env \in {e \in Envs : envSchemaParses(e) /\ bskyAccount(e) # NULL}
        /\ input \in PostInputs
        /\ pc = "p1_call"
        /\ auth = TRUE
        /\ postData = NULL
     \/ /\ runner = "BotRunV1"
        /\ variant = "text"
        /\ dryRun \in BOOLEAN
        /\ env \in {e \in Envs : envSchemaParses(e)}
        /\ input = NoInput
        /\ pc = "run1_call"
        /\ auth = FALSE
        /\ postData = NULL
     \/ /\ runner = "postV2"
        /\ variant = "none"
        /\ dryRun = FALSE
        /\ env \in {e \in Envs : envSchemaParses(e) /\ bskyAccount(e) # NULL}
        /\ input = NoInput
        /\ pc = "post_call"
        /\ auth = TRUE
        /\ postData \in PostDatas
  /\ phase = "first"
  /\ response = NoResponse
  /\ generated = NULL
  /\ random = NULL
  /\ meme = NULL
  /\ record = NULL
  /\ tasks = NoTasks
  /\ trace = <<>>
  /\ uploads = <<>>
  /\ posts = <<>>
  /\ exit = "none"
  /\ out = Undefined
  /\ log = <<>>

\* A failed run ending with exit status zero.
FailExitsZero ==
  /\ pc' = "exit"
  /\ exit' = "ok"

\* An uncaught error or process.exit(1): the run ends in failure.
Fail ==
  /\ pc' = "exit"
  /\ exit' = "fail"

\* config.ts: envSchema.parse(env) throws when a variable is set but empty.
LoadConfig ==
  /\ pc = "config"
  /\ IF envSchemaParses(env)
     THEN pc' = "main" /\ exit' = exit
     ELSE Fail
  /\ UNCHANGED <<inputs, phase, auth, response, generated, random, meme, postData, record,
                 tasks, trace, uploads, posts, out, log>>

\* The entry script without "await bot.login(bskyAccount)".
CheckAccountNoLogin ==
  /\ pc = "main"
  /\ IF bskyAccount(env) = NULL
     THEN Fail
     ELSE pc' = "getPostText" /\ exit' = exit
  /\ UNCHANGED <<inputs, phase, auth, response, generated, random, meme, postData, record,
                 tasks, trace, uploads, posts, out, log>>

\* index 5-10, index (fallback) 22-27, Bot.run 208-213.
CheckAccount ==
  /\ pc = "main"
  /\ IF bskyAccount(env) = NULL
     THEN Fail /\ trace' = trace
     ELSE pc' = "login" /\ exit' = exit /\ trace' = Append(trace, loginRequest)
  /\ UNCHANGED <<inputs, phase, auth, response, generated, random, meme, postData, record,
                 tasks, uploads, posts, out, log>>

\* A rejected login swallowed: the run goes on to getPostText.
LoginResolveIgnoresFailure ==
  /\ pc = "login"
  /\ \E ok \in BOOLEAN :
       /\ auth' = (auth \/ ok)
       /\ trace' = Settle(IF ok THEN "ok" ELSE "reject")
  /\ pc' = "getPostText"
  /\ UNCHANGED <<inputs, phase, response, generated, random, meme, postData, record,
                 tasks, uploads, posts, exit, out, log>>

\* await bot.login(bskyAccount)
LoginResolve ==
  /\ pc = "login"
  /\ \E ok \in BOOLEAN :
       IF ok
       THEN auth' = TRUE /\ pc' = "getPostText" /\ exit' = exit
            /\ trace' = Settle("ok")
       ELSE auth' = auth /\ Fail /\ trace' = Settle("reject")
  /\ UNCHANGED <<inputs, phase, response, generated, random, meme, postData, record,
                 tasks, uploads, posts, out, log>>

\* The call of getPostText(): runs to the variant's first await.
GetPostTextCall ==
  /\ pc = "getPostText"
  /\ \/ variant = "chained" /\ pc' = "gen_fetch"
        /\ trace' = Append(trace, generateRequest)
     \/ variant = "generate" /\ pc' = "g2_fetch"
        /\ trace' = Append(trace, generateRequest)
     \/ variant = "random" /\ pc' = "u_fetch"
        /\ trace' = Append(trace, urlRandomRequest)
  /\ UNCHANGED <<inputs, phase, auth, response, generated, random, meme, postData, record,
                 tasks, uploads, posts, exit, out, log>>

\* fetchGeneratedMeme 122-169: the response to the generate request, up to
\* the return.  response keeps the answer a strategy last received until
\* its caller has taken the result.
GenerateResolve ==
  /\ pc = "gen_fetch"
  /\ \E resp \in GenerateResponses :
       /\ response' = resp
       /\ generated' = fetchGeneratedMeme(resp)
       /\ trace' = Settle(resp.kind)
       /\ log' = log \o generateReports(resp)
  /\ pc' = "gen_return"
  /\ UNCHANGED <<inputs, phase, auth, random, meme, postData, record,
                 tasks, uploads, posts, exit, out>>

\* getPostText without "if (generated) return generated": the random
\* strategy runs whatever the generate strategy returned.
GenerateReturnNoReturn ==
  /\ pc = "gen_return"
  /\ pc' = "rand_fetch"
  /\ trace' = Append(trace, randomRequest)
  /\ response' = NoResponse
  /\ UNCHANGED <<inputs, phase, auth, generated, random, meme, postData, record,
                 tasks, uploads, posts, exit, out, log>>

\* getPostText 101-106: a result of fetchGeneratedMeme() returns, null goes
\* on to fetchRandomMeme() up to its listing request.
GenerateReturn ==
  /\ pc = "gen_return"
  /\ IF generated # NULL
     THEN /\ postData' = generated
          /\ pc' = "gpt_return"
          /\ trace' = trace
     ELSE /\ postData' = postData
          /\ pc' = "rand_fetch"
          /\ trace' = Append(trace, randomRequest)
  /\ response' = NoResponse
  /\ UNCHANGED <<inputs, phase, auth, generated, random, meme, record,
                 tasks, uploads, posts, exit, out, log>>

\* fetchRandomMeme 181-207: the listing response, up to the image download.
RandomListingResolve ==
  /\ pc = "rand_fetch"
  /\ \E resp \in ListingResponses :
       LET r == fetchRandomMemeCatch(randomListingTry(resp))
       IN /\ log' = log \o randomListingReports(resp)
          /\ IF IsMeme(r)
             THEN /\ meme' = r
                  /\ random' = random
                  /\ response' = resp
                  /\ pc' = "rand_image"
                  /\ trace' = Append(Settle(resp.kind), imageRequest(r.image_url))
             ELSE /\ meme' = meme
                  /\ random' = r
                  /\ response' = resp
                  /\ pc' = "rand_return"
                  /\ trace' = Settle(resp.kind)
  /\ UNCHANGED <<inputs, phase, auth, generated, postData, record,
                 tasks, uploads, posts, exit, out>>

\* fetchRandomMeme 207-236: the image download response.
RandomImageResolve ==
  /\ pc = "rand_image"
  /\ \E resp \in ImageResponses :
       /\ response' = resp
       /\ random' = fetchRandomMemeCatch(randomImageTry(meme, resp))
       /\ trace' = Settle(resp.kind)
       /\ log' = log \o randomImageReports(meme, resp)
  /\ pc' = "rand_return"
  /\ UNCHANGED <<inputs, phase, auth, generated, meme, postData, record,
                 tasks, uploads, posts, exit, out>>

\* The last-resort fallback posting the fixed text when fetchRandomMeme
\* returned null.
RandomReturnPostsAnyway ==
  /\ pc = "rand_return"
  /\ IF phase = "first"
     THEN /\ postData' = IF random # NULL THEN random ELSE FallbackChained
          /\ pc' = "gpt_return"
     ELSE /\ postData' = IF random # NULL THEN random ELSE FallbackChained
          /\ pc' = "post_call"
  /\ response' = NoResponse
  /\ log' = log \o randomReturnReports
  /\ meme' = NULL
  /\ UNCHANGED <<inputs, phase, auth, generated, random, record,
                 tasks, trace, uploads, posts, exit, out>>

\* The caller of fetchRandomMeme: getPostText 106-110, or the last-resort
\* fallback of the entry script (index 39-46).
RandomReturn ==
  /\ pc = "rand_return"
  /\ IF phase = "first"
     THEN /\ postData' = IF random # NULL THEN random ELSE FallbackChained
          /\ pc' = "gpt_return"
          /\ exit' = exit
     ELSE IF random # NULL
          THEN postData' = random /\ pc' = "post_call" /\ exit' = exit
          ELSE postData' = postData /\ Fail
  /\ response' = NoResponse
  /\ log' = log \o randomReturnReports
  /\ meme' = NULL
  /\ UNCHANGED <<inputs, phase, auth, generated, random, record,
                 tasks, trace, uploads, posts, out>>

\* The generate-only getPostText.
GenerateOnlyResolve ==
  /\ pc = "g2_fetch"
  /\ \E resp \in GenerateResponses :
       /\ postData' = getPostTextGenerate(resp)
       /\ trace' = Settle(resp.kind)
       /\ log' = log \o generateOnlyReports(resp)
  /\ pc' = "gpt_return"
  /\ UNCHANGED <<inputs, phase, auth, response, generated, random, meme, record,
                 tasks, uploads, posts, exit, out>>

\* The URL-returning random getPostText.
UrlRandomResolve ==
  /\ pc = "u_fetch"
  /\ \E resp \in ListingResponses :
       /\ postData' = getPostTextRandom(resp)
       /\ trace' = Settle(resp.kind)
       /\ response' = resp
       /\ log' = log \o urlRandomReports(resp)
  /\ pc' = "gpt_return"
  /\ UNCHANGED <<inputs, phase, auth, generated, random, meme, record,
                 tasks, uploads, posts, exit, out>>

\* Bot.run posting whether or not dryRun is set.
GetPostTextReturnIgnoresDryRun ==
  /\ pc = "gpt_return"
  /\ pc' = "post_call"
  /\ response' = NoResponse
  /\ UNCHANGED <<inputs, phase, auth, generated, random, meme, postData, record,
                 tasks, trace, uploads, posts, exit, out, log>>

\* The caller of getPostText: index 12-13 / 30-31, Bot.run 214-221.
GetPostTextReturn ==
  /\ pc = "gpt_return"
  /\ IF runner = "BotRun" /\ dryRun
     THEN pc' = "exit" /\ exit' = "ok" /\ out' = postData.text
     ELSE pc' = "post_call" /\ exit' = exit /\ out' = out
  /\ response' = NoResponse
  /\ UNCHANGED <<inputs, phase, auth, generated, random, meme, postData, record,
                 tasks, trace, uploads, posts, log>>

(***************************************************************************)
(* Bot.post (bot.ts 148-198)                                               *)
(***************************************************************************)
Get(r, k) == IF k \in DOMAIN r THEN r[k] ELSE Undefined
detectFacetsRequest == Request("detectFacets", <<"bsky">>, Undefined)
postImageRequest(url) == Request("postImage", url, Undefined)
uploadBlobRequest == Request("uploadBlob", <<"bsky">>, Undefined)
postRequest == Request("post", <<"bsky">>, Undefined)

\* richText.facets after detectFacets: here the positions of the hashtags.
detectedFacets(text) == {i \in 1..Len(text) : text[i] = "#"}

externalEmbed(pd) ==
  [type |-> "app.bsky.embed.external",
   external |-> [uri |-> pd.externalUrl,
                 title |-> Or(Get(pd, "externalTitle"), <<>>),
                 description |-> Or(Get(pd, "externalDescription"), <<>>)]]

imagesEmbed(handle, pd) ==
  [type |-> "app.bsky.embed.images",
   images |-> << [image |-> handle, alt |-> Or(Get(pd, "imageAlt"), <<>>)] >>]

\* 149-150: new RichText, await richText.detectFacets(agent)
PostCall ==
  /\ pc = "post_call"
  /\ pc' = "post_facets"
  /\ trace' = Append(trace, detectFacetsRequest)
  /\ UNCHANGED <<inputs, phase, auth, response, generated, random, meme, postData, record,
                 tasks, uploads, posts, exit, out, log>>

\* The embed selection with the external link tested before the image.
PostFacetsResolveExternalFirst ==
  /\ pc = "post_facets"
  /\ \/ /\ pc' = "post_throw"
        /\ trace' = Settle("reject")
        /\ UNCHANGED <<record, posts>>
     \/ LET rec == [text |-> postData.text, facets |-> detectedFacets(postData.text)]
        IN IF Truthy(Get(postData, "externalUrl"))
           THEN /\ record' = [text |-> rec.text, facets |-> rec.facets,
                              embed |-> externalEmbed(postData)]
                /\ pc' = "post_submit"
                /\ trace' = Append(Settle("ok"), postRequest)
                /\ posts' = Append(posts, record')
           ELSE IF Truthy(Get(postData, "imageUrl"))
           THEN /\ record' = rec
                /\ pc' = "post_image"
                /\ trace' = Append(Settle("ok"), postImageRequest(postData.imageUrl))
                /\ posts' = posts
           ELSE /\ record' = rec
                /\ pc' = "post_submit"
                /\ trace' = Append(Settle("ok"), postRequest)
                /\ posts' = Append(posts, record')
  /\ UNCHANGED <<inputs, phase, auth, response, generated, random, meme, postData,
                 tasks, uploads, exit, out, log>>

\* The embed selection ending in an unconditional external embed.
PostFacetsResolveAlwaysEmbeds ==
  /\ pc = "post_facets"
  /\ \/ /\ pc' = "post_throw"
        /\ trace' = Settle("reject")
        /\ UNCHANGED <<record, posts>>
     \/ LET rec == [text |-> postData.text, facets |-> detectedFacets(postData.text)]
        IN IF Truthy(Get(postData, "imageUrl"))
           THEN /\ record' = rec
                /\ pc' = "post_image"
                /\ trace' = Append(Settle("ok"), postImageRequest(postData.imageUrl))
                /\ posts' = posts
           ELSE /\ record' = [text |-> rec.text, facets |-> rec.facets,
                              embed |-> [type |-> "app.bsky.embed.external",
                                         external |-> [uri |-> Or(Get(postData, "externalUrl"), <<>>),
                                                       title |-> <<>>,
                                                       description |-> <<>>]]]
                /\ pc' = "post_submit"
                /\ trace' = Append(Settle("ok"), postRequest)
                /\ posts' = Append(posts, record')
  /\ UNCHANGED <<inputs, phase, auth, response, generated, random, meme, postData,
                 tasks, uploads, exit, out, log>>

\* 150-196 after detectFacets: the record, then the embed selection.
PostFacetsResolve ==
  /\ pc = "post_facets"
  /\ \/ /\ pc' = "post_throw"
        /\ trace' = Settle("reject")
        /\ UNCHANGED <<record, posts>>
     \/ LET rec == [text |-> postData.text, facets |-> detectedFacets(postData.text)]
        IN IF Truthy(Get(postData, "imageUrl"))
           THEN /\ record' = rec
                /\ pc' = "post_image"
                /\ trace' = Append(Settle("ok"), postImageRequest(postData.imageUrl))
                /\ posts' = posts
           ELSE IF Truthy(Get(postData, "externalUrl"))
           THEN /\ record' = [text |-> rec.text, facets |-> rec.facets,
                              embed |-> externalEmbed(postData)]
                /\ pc' = "post_submit"
                /\ trace' = Append(Settle("ok"), postRequest)
                /\ posts' = Append(posts, record')
           ELSE /\ record' = rec
                /\ pc' = "post_submit"
                /\ trace' = Append(Settle("ok"), postRequest)
                /\ posts' = Append(posts, record')
  /\ UNCHANGED <<inputs, phase, auth, response, generated, random, meme, postData,
                 tasks, uploads, exit, out, log>>

\* The blob built with the default type of the content strategies.
PostImageResolveDefaultsWebp ==
  /\ pc = "post_image"
  /\ \E resp \in ImageResponses :
       /\ response' = resp
       /\ IF resp.kind # "ok" \/ ~resp.bodyOk
          THEN /\ pc' = "post_throw"
               /\ trace' = Settle(resp.kind)
               /\ uploads' = uploads
          ELSE /\ pc' = "post_upload"
               /\ trace' = Append(Settle("ok"), uploadBlobRequest)
               /\ uploads' = Append(uploads,
                                    [bytes |-> "fetchedBytes",
                                     type |-> Or(resp.contentType, <<"image/webp">>)])
  /\ UNCHANGED <<inputs, phase, auth, generated, random, meme, postData, record,
                 tasks, posts, exit, out, log>>

\* 161-171: the response to fetch(postData.imageUrl), up to uploadBlob.
PostImageResolve ==
  /\ pc = "post_image"
  /\ \E resp \in ImageResponses :
       /\ response' = resp
       /\ IF resp.kind # "ok" \/ ~resp.bodyOk
          THEN /\ pc' = "post_throw"
               /\ trace' = Settle(resp.kind)
               /\ uploads' = uploads
          ELSE /\ pc' = "post_upload"
               /\ trace' = Append(Settle("ok"), uploadBlobRequest)
               /\ uploads' = Append(uploads,
                                    [bytes |-> "fetchedBytes",
                                     type |-> Or(resp.contentType, <<"image/jpeg">>)])
  /\ UNCHANGED <<inputs, phase, auth, generated, random, meme, postData, record,
                 tasks, posts, exit, out, log>>

\* A rejected uploadBlob swallowed: the record goes out without the embed.
PostUploadResolveSwallows ==
  /\ pc = "post_upload"
  /\ \/ /\ record' = record
        /\ trace' = Append(Settle("reject"), postRequest)
     \/ /\ record' = [text |-> record.text, facets |-> record.facets,
                      embed |-> imagesEmbed(Len(uploads), postData)]
        /\ trace' = Append(Settle("ok"), postRequest)
  /\ pc' = "post_submit"
  /\ posts' = Append(posts, record')
  /\ UNCHANGED <<inputs, phase, auth, response, generated, random, meme, postData,
                 tasks, uploads, exit, out, log>>

\* 171-196: the response to uploadBlob, up to agent.post(record).
PostUploadResolve ==
  /\ pc = "post_upload"
  /\ \/ /\ pc' = "post_throw"
        /\ trace' = Settle("reject")
        /\ UNCHANGED <<record, posts>>
     \/ /\ record' = [text |-> record.text, facets |-> record.facets,
                      embed |-> imagesEmbed(Len(uploads), postData)]
        /\ pc' = "post_submit"
        /\ trace' = Append(Settle("ok"), postRequest)
        /\ posts' = Append(posts, record')
  /\ UNCHANGED <<inputs, phase, auth, response, generated, random, meme, postData,
                 tasks, uploads, exit, out, log>>

\* 196-197: the response to agent.post(record).
PostSubmitResolve ==
  /\ pc = "post_submit"
  /\ \/ /\ pc' = "post_throw"
        /\ trace' = Settle("reject")
        /\ out' = out
     \/ /\ pc' = "post_return"
        /\ trace' = Settle("ok")
        /\ out' = <<"at://uri">>
  /\ UNCHANGED <<inputs, phase, auth, response, generated, random, meme, postData, record,
                 tasks, uploads, posts, exit, log>>

\* The last-resort catch around bot.post in every program.
PostThrowAlwaysCatches ==
  /\ pc = "post_throw"
  /\ IF phase = "first"
     THEN /\ phase' = "fallback"
          /\ pc' = "rand_fetch"
          /\ trace' = Append(trace, randomRequest)
          /\ exit' = exit
          /\ generated' = NULL
          /\ random' = NULL
          /\ postData' = NULL
          /\ record' = NULL
     ELSE /\ Fail
          /\ UNCHANGED <<phase, trace, generated, random, postData, record>>
  /\ log' = log \o postThrowReports
  /\ UNCHANGED <<inputs, auth, response, meme, tasks, uploads, posts, out>>

\* The entry script starting over with getPostText whenever bot.post rejects.
PostThrowStartsOver ==
  /\ pc = "post_throw"
  /\ pc' = "getPostText"
  /\ generated' = NULL
  /\ random' = NULL
  /\ postData' = NULL
  /\ record' = NULL
  /\ log' = log \o postThrowReports
  /\ UNCHANGED <<inputs, phase, auth, response, meme, tasks, trace, uploads, posts,
                 exit, out>>

\* bot.post rejected: uncaught in index and Bot.run; caught once by the
\* entry script with the last-resort fallback (index 33-39), which then
\* calls fetchRandomMeme().
PostThrow ==
  /\ pc = "post_throw"
  /\ IF runner = "indexFallback" /\ phase = "first"
     THEN /\ phase' = "fallback"
          /\ pc' = "rand_fetch"
          /\ trace' = Append(trace, randomRequest)
          /\ exit' = exit
          /\ generated' = NULL
          /\ random' = NULL
          /\ postData' = NULL
          /\ record' = NULL
     ELSE /\ Fail
          /\ UNCHANGED <<phase, trace, generated, random, postData, record>>
  /\ log' = log \o postThrowReports
  /\ UNCHANGED <<inputs, auth, response, meme, tasks, uploads, posts, out>>

\* The statement after a resolved bot.post throwing: the run takes the path
\* of a rejected post.
PostReturnThrows ==
  /\ pc = "post_return"
  /\ pc' = "post_throw"
  /\ UNCHANGED <<inputs, phase, auth, response, generated, random, meme, postData, record,
                 tasks, trace, uploads, posts, exit, out, log>>

\* bot.post resolved with the uri: it is printed (index) or returned
\* (Bot.run 217); Bot.run of the record-dispatching class returns the text
\* it posted (bot.ts 118).
PostReturn ==
  /\ pc = "post_return"
  /\ pc' = "exit"
  /\ exit' = "ok"
  /\ out' = IF runner = "BotRunV1" THEN input.text ELSE out
  /\ log' = log \o postReturnReports
  /\ UNCHANGED <<inputs, phase, auth, response, generated, random, meme, postData, record,
                 tasks, trace, uploads, posts>>

(***************************************************************************)
(* The record-dispatching Bot.post (bot.ts 31-101).  The images of an      *)
(* image embed are processed by concurrent tasks under Promise.all.        *)
(***************************************************************************)
NoBlob == [bytes |-> "none", type |-> Undefined]
NoHandle == 0
uploadResponse(handle) == [data |-> [blob |-> handle]]

RECURSIVE startRequests(_)
startRequests(images) ==
  IF images = <<>> THEN <<>>
  ELSE (IF Head(images).kind = "Blob" THEN <<uploadBlobRequest>>
        ELSE IF Head(images).kind = "string" THEN <<postImageRequest(Head(images).url)>>
        ELSE <<>>)
       \o startRequests(Tail(images))

RECURSIVE startUploads(_)
startUploads(images) ==
  IF images = <<>> THEN <<>>
  ELSE (IF Head(images).kind = "Blob" THEN <<Head(images).blob>> ELSE <<>>)
       \o startUploads(Tail(images))

\* 59-70: an async callback runs to its first await: uploadBlob for a Blob,
\* fetch for a URL string; anything else throws.  req is the task's request
\* in the trace, upload its blob in uploads.
startTask(img, req, upload) ==
  IF img.kind = "Blob"
  THEN [pc |-> "upload", blob |-> img.blob, req |-> req, upload |-> upload, image |-> NoHandle]
  ELSE IF img.kind = "string"
  THEN [pc |-> "fetch", blob |-> NoBlob, req |-> req, upload |-> 0, image |-> NoHandle]
  ELSE [pc |-> "failed", blob |-> NoBlob, req |-> 0, upload |-> 0, image |-> NoHandle]

startTasks(images, sent, uploaded) ==
  [i \in 1..Len(images) |->
     startTask(images[i],
               sent + Len(startRequests(SubSeq(images, 1, i))),
               uploaded + Len(startUploads(SubSeq(images, 1, i))))]

AnyFailed(ts) == \E i \in 1..Len(ts) : ts[i].pc = "failed"
AllDone(ts) == \A i \in 1..Len(ts) : ts[i].pc = "done"

\* 40-42, 48-51, 98-99
PostV1Call ==
  /\ pc = "p1_call"
  /\ IF input.shape = "plainRecord"
     THEN /\ record' = [text |-> input.text]
          /\ pc' = "p1_submit"
          /\ trace' = Append(trace, postRequest)
          /\ posts' = Append(posts, record')
     ELSE /\ pc' = "p1_facets"
          /\ trace' = Append(trace, detectFacetsRequest)
          /\ UNCHANGED <<record, posts>>
  /\ UNCHANGED <<inputs, phase, auth, response, generated, random, meme, postData,
                 tasks, uploads, exit, out, log>>

\* 42-47 and 51-97 after detectFacets.
PostV1FacetsResolve ==
  /\ pc = "p1_facets"
  /\ \/ /\ pc' = "post_throw"
        /\ trace' = Settle("reject")
        /\ UNCHANGED <<record, tasks, uploads, posts>>
     \/ LET rec == [text |-> input.text, facets |-> detectedFacets(input.text)]
        IN IF input.shape = "embedRecord" /\ input.embed # NULL
              /\ input.embed.type = "app.bsky.embed.image"
           THEN LET ts == startTasks(input.embed.images, Len(trace), Len(uploads))
                IN /\ record' = rec
                   /\ tasks' = ts
                   /\ trace' = Settle("ok") \o startRequests(input.embed.images)
                   /\ uploads' = uploads \o startUploads(input.embed.images)
                   /\ pc' = IF AnyFailed(ts) THEN "post_throw" ELSE "p1_all"
                   /\ posts' = posts
           ELSE IF input.shape = "embedRecord" /\ input.embed # NULL
                   /\ input.embed.type = "app.bsky.embed.external"
           THEN /\ record' = [text |-> rec.text, facets |-> rec.facets,
                              embed |-> input.embed]
                /\ pc' = "p1_submit"
                /\ trace' = Append(Settle("ok"), postRequest)
                /\ posts' = Append(posts, record')
                /\ UNCHANGED <<tasks, uploads>>
           ELSE /\ record' = rec
                /\ pc' = "p1_submit"
                /\ trace' = Append(Settle("ok"), postRequest)
                /\ posts' = Append(posts, record')
                /\ UNCHANGED <<tasks, uploads>>
  /\ UNCHANGED <<inputs, phase, auth, response, generated, random, meme, postData,
                 exit, out, log>>

TaskSettle(i, result) == [trace EXCEPT ![tasks[i].req].result = result]

\* A rejected task rejects Promise.all, and with it post, if post is still
\* waiting for it; the other tasks go on.
TaskRejects(i) ==
  /\ tasks' = [tasks EXCEPT ![i].pc = "failed"]
  /\ pc' = IF pc = "p1_all" THEN "post_throw" ELSE pc

\* 64-65: the response to fetch(img.image); its status is not looked at.
TaskFetchResolve(i) ==
  /\ tasks[i].pc = "fetch"
  /\ \/ /\ TaskRejects(i)
        /\ trace' = TaskSettle(i, "reject")
     \/ \E kind \in {"ok", "notOk"} :
          /\ tasks' = [tasks EXCEPT ![i].pc = "blob",
                                    ![i].blob = [bytes |-> IF kind = "ok" THEN "fetchedBytes"
                                                           ELSE "errorBody",
                                                 type |-> <<"image/png">>]]
          /\ trace' = TaskSettle(i, kind)
          /\ pc' = pc
  /\ UNCHANGED <<inputs, phase, auth, response, generated, random, meme, postData, record,
                 uploads, posts, exit, out, log>>

\* 65-70: response.blob(), then uploadBlob(blob).
TaskBlobResolve(i) ==
  /\ tasks[i].pc = "blob"
  /\ \/ /\ TaskRejects(i)
        /\ UNCHANGED <<trace, uploads>>
     \/ /\ tasks' = [tasks EXCEPT ![i].pc = "upload",
                                  ![i].req = Len(trace) + 1,
                                  ![i].upload = Len(uploads) + 1]
        /\ trace' = Append(trace, uploadBlobRequest)
        /\ uploads' = Append(uploads, tasks[i].blob)
        /\ pc' = pc
  /\ UNCHANGED <<inputs, phase, auth, response, generated, random, meme, postData, record,
                 posts, exit, out, log>>

\* 70-74: the response to uploadBlob; the task yields uploadedImage.blob.
TaskUploadResolve(i) ==
  /\ tasks[i].pc = "upload"
  /\ \/ /\ TaskRejects(i)
        /\ trace' = TaskSettle(i, "reject")
     \/ LET uploadedImage == uploadResponse(tasks[i].upload)
        IN /\ tasks' = [tasks EXCEPT ![i].pc = "done",
                                     ![i].image = IF "blob" \in DOMAIN uploadedImage
                                                  THEN uploadedImage.blob ELSE NoHandle]
           /\ trace' = TaskSettle(i, "ok")
           /\ pc' = pc
  /\ UNCHANGED <<inputs, phase, auth, response, generated, random, meme, postData, record,
                 uploads, posts, exit, out, log>>

\* 76-97: Promise.all resolved; the embed is attached and the record posted.
PostV1AllDone ==
  /\ pc = "p1_all"
  /\ AllDone(tasks)
  /\ record' = [text |-> record.text, facets |-> record.facets,
                embed |-> [type |-> "app.bsky.embed.image",
                           images |-> [i \in 1..Len(tasks) |->
                                         [image |-> tasks[i].image,
                                          alt |-> Or(input.embed.images[i].alt, <<>>)]]]]
  /\ pc' = "p1_submit"
  /\ trace' = Append(trace, postRequest)
  /\ posts' = Append(posts, record')
  /\ UNCHANGED <<inputs, phase, auth, response, generated, random, meme, postData,
                 tasks, uploads, exit, out, log>>

\* 47, 97, 99: the response to agent.post(record).
PostV1SubmitResolve ==
  /\ pc = "p1_submit"
  /\ \/ /\ pc' = "post_throw"
        /\ trace' = Settle("reject")
        /\ out' = out
     \/ /\ pc' = "post_return"
        /\ trace' = Settle("ok")
        /\ out' = <<"at://uri">>
  /\ UNCHANGED <<inputs, phase, auth, response, generated, random, meme, postData, record,
                 tasks, uploads, posts, exit, log>>

(***************************************************************************)
(* Bot.run of the record-dispatching class (bot.ts 103-119).  getPostText  *)
(* is the caller's function: the call is one awaited operation that        *)
(* resolves with a string or rejects.                                      *)
(***************************************************************************)
RECURSIVE trimStart(_)
trimStart(t) ==
  IF t # <<>> /\ Head(t) \in Whitespace THEN trimStart(Tail(t)) ELSE t

RECURSIVE trimEnd(_)
trimEnd(t) ==
  IF t # <<>> /\ t[Len(t)] \in Whitespace
  THEN trimEnd(SubSeq(t, 1, Len(t) - 1))
  ELSE t

\* String.prototype.trim
trim(t) == trimEnd(trimStart(t))

\* What the caller's getPostText resolves with.
TextResults ==
  {<<"hello">>, <<" ", "hello", "\n">>, <<"a", " ", "b">>, <<" ">>}

getPostTextRequest == Request("getPostText", <<"caller">>, Undefined)

\* 107-112: new Bot(service), bot.login(bskyAccount) up to the await; without
\* an account there are no credentials to send and login rejects.
RunV1Call ==
  /\ pc = "run1_call"
  /\ IF bskyAccount(env) = NULL
     THEN Fail /\ trace' = trace
     ELSE pc' = "run1_login" /\ exit' = exit /\ trace' = Append(trace, loginRequest)
  /\ UNCHANGED <<inputs, phase, auth, response, generated, random, meme, postData, record,
                 tasks, uploads, posts, out, log>>

\* 112-113: the response to login, then the call of getPostText().
RunV1LoginResolve ==
  /\ pc = "run1_login"
  /\ \E ok \in BOOLEAN :
       IF ok
       THEN /\ auth' = TRUE
            /\ pc' = "run1_text"
            /\ exit' = exit
            /\ trace' = Append(Settle("ok"), getPostTextRequest)
       ELSE auth' = auth /\ Fail /\ trace' = Settle("reject")
  /\ UNCHANGED <<inputs, phase, response, generated, random, meme, postData, record,
                 tasks, uploads, posts, out, log>>

\* 113-118: getPostText() settles; the text is trimmed, then posted, or with
\* dryRun printed and returned.
RunV1TextResolve ==
  /\ pc = "run1_text"
  /\ \/ /\ Fail
        /\ trace' = Settle("reject")
        /\ UNCHANGED <<input, response, out>>
     \/ \E s \in TextResults :
          LET text == trim(s)
          IN /\ response' = [kind |-> "ok", text |-> s]
             /\ trace' = Settle("ok")
             /\ IF ~dryRun
                THEN /\ input' = [shape |-> "string", text |-> text, embed |-> NULL]
                     /\ pc' = "p1_call"
                     /\ UNCHANGED <<exit, out>>
                ELSE /\ input' = input
                     /\ pc' = "exit"
                     /\ exit' = "ok"
                     /\ out' = text
  /\ UNCHANGED <<runner, variant, dryRun, env, phase, auth, generated, random, meme,
                 postData, record, tasks, uploads, posts, log>>

Next ==
  \/ LoadConfig
  \/ CheckAccount
  \/ LoginResolve
  \/ GetPostTextCall
  \/ GenerateResolve
  \/ GenerateReturn
  \/ RandomListingResolve
  \/ RandomImageResolve
  \/ RandomReturn
  \/ GenerateOnlyResolve
  \/ UrlRandomResolve
  \/ GetPostTextReturn
  \/ PostCall
  \/ PostFacetsResolve
  \/ PostImageResolve
  \/ PostUploadResolve
  \/ PostSubmitResolve
  \/ PostThrow
  \/ PostReturn
  \/ PostV1Call
  \/ PostV1FacetsResolve
  \/ \E i \in 1..Len(tasks) : TaskFetchResolve(i)
  \/ \E i \in 1..Len(tasks) : TaskBlobResolve(i)
  \/ \E i \in 1..Len(tasks) : TaskUploadResolve(i)
  \/ PostV1AllDone
  \/ PostV1SubmitResolve
  \/ RunV1Call
  \/ RunV1LoginResolve
  \/ RunV1TextResolve

Spec == Init /\ [][Next]_vars

\* A run of an entry script, from process start.  The content API key is
\* configured: it only decides the x-api-key header of the content API
\* requests, and what the run does next never depends on it.
LiveInit ==
  /\ Init
  /\ runner \in {"index", "indexFallback"}
  /\ env.SNAGG_API_KEY = <<"k">>

\* The steps of an entry script: the record-dispatching Bot.post is not
\* called from it.
LiveNext ==
  \/ LoadConfig
  \/ CheckAccount
  \/ LoginResolve
  \/ GetPostTextCall
  \/ GenerateResolve
  \/ GenerateReturn
  \/ RandomListingResolve
  \/ RandomImageResolve
  \/ RandomReturn
  \/ GenerateOnlyResolve
  \/ UrlRandomResolve
  \/ GetPostTextReturn
  \/ PostCall
  \/ PostFacetsResolve
  \/ PostImageResolve
  \/ PostUploadResolve
  \/ PostSubmitResolve
  \/ PostThrow
  \/ PostReturn

\* Every network operation is answered in the end and the code between two
\* awaits runs: a step that can be taken is taken.
LiveSpec == LiveInit /\ [][LiveNext]_vars /\ WF_vars(LiveNext)

(***************************************************************************)
(* Observations on the trace                                               *)
(***************************************************************************)
Ops(kinds) == {i \in 1..Len(trace) : trace[i].op \in kinds}

(***************************************************************************)
(* Properties                                                              *)
(***************************************************************************)

\* C1: in the chained getPostText the generate request comes first and has
\* been answered before any listing or image request is issued; the random
\* strategy runs only when fetchGeneratedMeme returned null; when it returned
\* a record, that record is what getPostText returns and no listing or image
\* request has been issued.
C1_GenerateFirst ==
  (variant = "chained" /\ phase = "first") =>
    /\ \A j \in Ops({"listing", "image"}) :
         \E i \in Ops({"generate"}) : i < j /\ trace[i].result # "pending"
    /\ (Ops({"listing", "image"}) # {}) => generated = NULL
    /\ (generated # NULL) =>
         /\ Ops({"listing", "image"}) = {}
         /\ (pc = "gpt_return" => postData = generated)

C1_GenerateSucceeded ==
  /\ variant = "chained"
  /\ pc = "gpt_return"
  /\ generated # NULL
  /\ "imageBuffer" \in DOMAIN postData

\* C2: when fetchGeneratedMeme and fetchRandomMeme both returned null, the
\* chained getPostText returns the record whose only field is text, equal to
\* the fixed fallback string.
C2_FixedFallback ==
  (variant = "chained" /\ pc = "gpt_return" /\ generated = NULL /\ random = NULL) =>
    postData = [text |-> <<"Check out snagg.meme for fresh memes! (U+1F525)">>]

C2_BothFailed ==
  /\ variant = "chained"
  /\ pc = "gpt_return"
  /\ generated = NULL
  /\ random = NULL
  /\ Ops({"listing"}) # {}

\* C3: no exception leaves fetchGeneratedMeme, fetchRandomMeme or any
\* getPostText variant, whatever the upstream answers; what getPostText
\* returns is a content record with a text.
C3_NeverThrows ==
  /\ generated # Thrown
  /\ random # Thrown
  /\ postData # Thrown
  /\ (pc = "gpt_return" => "text" \in DOMAIN postData)

C3_FailureAbsorbed ==
  /\ pc = "gpt_return"
  /\ variant = "generate"
  /\ trace[Len(trace)].result = "reject"
  /\ DOMAIN postData = {"text"}

Rejected(kinds) == {i \in Ops(kinds) : trace[i].result = "reject"}

\* Requests that fetch content, upload a blob or submit a post.
WorkKinds == {"generate", "listing", "image", "postImage", "uploadBlob", "post"}

\* Request j belongs to a later call of Bot.post than request i: every call
\* of post starts with detectFacets.
LaterCall(i, j) == \E k \in Ops({"detectFacets"}) : i < k /\ k < j

\* The call of Bot.post that issued request i is over and did not resolve.
CallRejected(i) ==
  \/ \E k \in Ops({"detectFacets"}) : i < k
  \/ /\ pc \in {"post_throw", "exit", "rand_fetch", "rand_image", "rand_return", "post_call"}
     /\ exit # "ok"

\* C4: a content record with imageBuffer handed to Bot.post is submitted with
\* an image embed whose blob is the upload of exactly those bytes and whose
\* alt is imageAlt, or the empty string when imageAlt is absent.
C4_ImageBytesUploaded ==
  (runner \in Runs /\ pc = "post_submit" /\ "imageBuffer" \in DOMAIN postData) =>
    /\ "embed" \in DOMAIN record
    /\ record.embed.type = "app.bsky.embed.images"
    /\ Len(record.embed.images) = 1
    /\ record.embed.images[1].image \in 1..Len(uploads)
    /\ uploads[record.embed.images[1].image].bytes = postData.imageBuffer
    /\ record.embed.images[1].alt = Or(Get(postData, "imageAlt"), <<>>)

\* C5 (as stated): once a post submission has been rejected, no content
\* fetch, blob upload or post submission is issued any more in that run.
C5_NoWorkAfterRejectedPost ==
  \A i \in Rejected({"post"}) : \A j \in Ops(WorkKinds) : j <= i

\* C5 (amended): a rejected post submission ends the run with nothing further
\* attempted, except in the entry script with the last-resort fallback, where
\* the first rejected submission is followed by one fetchRandomMeme call (one
\* listing request, at most one image download, never a generate request) and
\* at most one further call of post; a second rejection ends the run.
C5_NoRetryExceptLastResort ==
  \A i \in Rejected({"post"}) :
    LET later == {j \in Ops(WorkKinds) : j > i}
        Count(kind) == Cardinality({j \in later : trace[j].op = kind})
        firstAttempt == Cardinality({k \in Ops({"detectFacets"}) : k < i}) = 1
    IN IF runner = "indexFallback" /\ firstAttempt
       THEN /\ Count("generate") = 0
            /\ Count("listing") <= 1
            /\ Count("image") <= 1
            /\ Count("postImage") <= 1
            /\ Count("uploadBlob") <= 1
            /\ Count("post") <= 1
            /\ (later # {} => phase = "fallback")
       ELSE /\ later = {}
            /\ (pc \in {"post_throw", "exit"} /\ exit # "ok")

C5_SecondRejectionEndsRun ==
  /\ runner = "indexFallback"
  /\ Cardinality(Rejected({"post"})) = 2
  /\ pc = "exit"
  /\ exit = "fail"

\* C6: when uploadBlob rejects, the call of Bot.post that issued it rejects
\* and submits no post record.
C6_UploadFailurePropagates ==
  \A i \in Rejected({"uploadBlob"}) :
    /\ CallRejected(i)
    /\ \A j \in Ops({"post"}) : j > i => LaterCall(i, j)

C6_UploadRejected ==
  /\ runner \in Runs
  /\ Rejected({"uploadBlob"}) # {}
  /\ pc = "exit"
  /\ exit = "fail"

\* C7: when the fetch of the image for the embed rejects or answers non-2xx,
\* the call of Bot.post that issued it rejects, uploads no blob afterwards
\* and submits no post.
C7_ImageFetchFailureIsHard ==
  \A i \in Ops({"postImage"}) :
    trace[i].result \in {"reject", "notOk"} =>
      /\ CallRejected(i)
      /\ \A j \in Ops({"uploadBlob", "post"}) : j > i => LaterCall(i, j)

\* C8: a run logs in at most once, and every blob upload and post submission
\* is issued after the one login has succeeded, on an authenticated client.
C8_LoginOnceBeforePublishing ==
  runner \in Runs =>
    /\ Cardinality(Ops({"login"})) <= 1
    /\ \A j \in Ops({"uploadBlob", "post"}) :
         /\ auth
         /\ Cardinality(Ops({"login"})) = 1
         /\ \E i \in Ops({"login"}) : i < j /\ trace[i].result = "ok"

C8_PublishedAfterLogin ==
  /\ runner \in Runs
  /\ Ops({"uploadBlob"}) # {}
  /\ \E j \in Ops({"post"}) : trace[j].result = "ok"

\* C9: a rejected login ends the run in failure with no request to the
\* content API, no image download, no blob upload and no post submission.
C9_LoginFailureAborts ==
  Rejected({"login"}) # {} =>
    /\ Ops(WorkKinds \cup {"detectFacets"}) = {}
    /\ pc = "exit"
    /\ exit = "fail"

C9_LoginRejected ==
  /\ Rejected({"login"}) # {}
  /\ pc = "exit"

\* C10: with the handle or the password missing from the environment, a run
\* ends in failure without any network operation (no login, no content
\* fetch, no post).
C10_MissingCredentialsFailAtStartup ==
  (runner \in Runs /\ (~Truthy(env.BSKY_HANDLE) \/ ~Truthy(env.BSKY_PASSWORD))) =>
    /\ trace = <<>>
    /\ pc \in {"config", "main", "exit"}
    /\ (pc = "exit" => exit = "fail")

C10_MissingPasswordFailed ==
  /\ runner \in Runs
  /\ env.BSKY_HANDLE = <<"v">>
  /\ env.BSKY_PASSWORD = Undefined
  /\ pc = "exit"
  /\ exit = "fail"

\* Post submissions that were accepted.
Published == {j \in Ops({"post"}) : trace[j].result = "ok"}

\* C11: a run of an entry script logs in at most once and has at most one
\* accepted post submission; nothing is requested after the accepted
\* submission, and a run that ends in success has published exactly one post.
C11_AtMostOnePostPerRun ==
  runner \in {"index", "indexFallback"} =>
    /\ Cardinality(Ops({"login"})) <= 1
    /\ Cardinality(Published) <= 1
    /\ \A j \in Published : j = Len(trace) /\ pc \in {"post_return", "exit"}
    /\ (exit = "ok" => Cardinality(Published) = 1)

C11_PublishedByLastResort ==
  /\ runner = "indexFallback"
  /\ phase = "fallback"
  /\ Rejected({"post"}) # {}
  /\ Cardinality(Published) = 1
  /\ exit = "ok"

\* Programs whose post is Bot.post of bot.ts 148-198.
PostDataRunners == Runs \cup {"postV2"}

\* C12: the record Bot.post submits carries at most one embed, of one kind;
\* with imageUrl set it is the image embed with one image, whether or not
\* externalUrl is set; it is the external embed only when imageUrl is not set
\* and externalUrl is.
C12_ImageWinsOverExternal ==
  (runner \in PostDataRunners /\ pc \in {"post_submit", "post_return"}) =>
    /\ posts[Len(posts)] = record
    /\ ("embed" \in DOMAIN record) =>
         \/ /\ record.embed.type = "app.bsky.embed.images"
            /\ DOMAIN record.embed = {"type", "images"}
         \/ /\ record.embed.type = "app.bsky.embed.external"
            /\ DOMAIN record.embed = {"type", "external"}
            /\ ~Truthy(Get(postData, "imageUrl"))
            /\ Truthy(Get(postData, "externalUrl"))
    /\ Truthy(Get(postData, "imageUrl")) =>
         /\ "embed" \in DOMAIN record
         /\ record.embed.type = "app.bsky.embed.images"
         /\ Len(record.embed.images) = 1

C12_BothUrlsSubmitted ==
  /\ runner = "postV2"
  /\ pc = "post_submit"
  /\ Truthy(Get(postData, "imageUrl"))
  /\ Truthy(Get(postData, "externalUrl"))
  /\ record.embed.type = "app.bsky.embed.images"

\* A content record with nothing but its text set.
TextOnly(pd) ==
  /\ "text" \in DOMAIN pd
  /\ DOMAIN pd \cap {"imageBuffer", "imageMimeType"} = {}
  /\ \A k \in DOMAIN pd \ {"text"} : pd[k] = Undefined

\* C13: for a content record with only text set, Bot.post issues no image
\* fetch and no blob upload and submits the record {text, facets} with no
\* embed; so does the record-dispatching Bot.post for a string.
C13_TextOnlyHasNoEmbed ==
  /\ (runner \in PostDataRunners
      /\ pc \in {"post_facets", "post_image", "post_upload", "post_submit", "post_return"}
      /\ TextOnly(postData)) =>
        /\ \A j \in Ops({"postImage", "uploadBlob"}) :
             \E k \in Ops({"detectFacets"}) : j < k
        /\ pc \notin {"post_image", "post_upload"}
        /\ pc \in {"post_submit", "post_return"} =>
             /\ record = [text |-> postData.text,
                          facets |-> detectedFacets(postData.text)]
             /\ posts[Len(posts)] = record
  /\ (runner = "postV1" /\ input.shape = "string") =>
        /\ Ops({"postImage", "uploadBlob"}) = {}
        /\ tasks = NoTasks
        /\ pc \in {"p1_submit", "post_return"} =>
             /\ record = [text |-> input.text, facets |-> detectedFacets(input.text)]
             /\ posts = <<record>>

C13_TextOnlyPublished ==
  /\ runner = "postV2"
  /\ TextOnly(postData)
  /\ pc = "post_return"
  /\ posts = <<[text |-> postData.text, facets |-> detectedFacets(postData.text)]>>

\* A generate response that is not a usable image: the request rejected, a
\* non-2xx status, an unreadable body, or a caption header that cannot be
\* percent-decoded.
GenerateFailed(resp) ==
  \/ resp.kind \in {"reject", "notOk"}
  \/ ~resp.bodyOk
  \/ \E h \in {resp.top, resp.bottom, resp.template} : h # Undefined /\ ~Decodable(h)

\* C14: fetchGeneratedMeme raises nothing, and returns null for a rejected
\* request, a non-2xx response (readable error body or not), an unreadable
\* image body and an undecodable caption header.
C14_GenerateFailureIsNull ==
  pc = "gen_return" =>
    /\ generated # Thrown
    /\ GenerateFailed(response) => generated = NULL

C14_UndecodableCaptionAbsorbed ==
  /\ pc = "gen_return"
  /\ response.kind = "ok"
  /\ response.bodyOk
  /\ response.top = <<"%", "Z">>
  /\ generated = NULL

\* C15: fetchRandomMeme raises nothing and returns either null or the whole
\* record; it returns null when the listing answers non-2xx, when the listing
\* has no memes array or an empty one, and when the image download answers
\* non-2xx or rejects.
C15_RandomFailureIsNull ==
  pc = "rand_return" =>
    LET listing == "jsonOk" \in DOMAIN response
        listingFailed ==
          /\ listing
          /\ \/ response.kind = "notOk"
             \/ /\ response.kind = "ok"
                /\ response.jsonOk
                /\ (~response.hasMemes \/ response.memes = <<>>)
        imageFailed == ~listing /\ response.kind \in {"notOk", "reject"}
    IN /\ random # Thrown
       /\ (listingFailed \/ imageFailed) => random = NULL
       /\ random # NULL =>
            DOMAIN random = {"text", "imageBuffer", "imageAlt", "imageMimeType"}

C15_ImageDownloadRefused ==
  /\ pc = "rand_return"
  /\ meme # NULL
  /\ response.kind = "notOk"
  /\ random = NULL

\* C16: the text of a generated meme is "{top} / {bottom}" when both decoded
\* captions are non-empty, the one non-empty caption alone when exactly one
\* is, and the fixed default string when neither is.
C16_GeneratedText ==
  (pc = "gen_return" /\ generated # NULL) =>
    LET top == decodeURIComponent(Or(response.top, <<>>))
        bottom == decodeURIComponent(Or(response.bottom, <<>>))
    IN generated.text =
         CASE top # <<>> /\ bottom # <<>> -> top \o <<" / ">> \o bottom
           [] top # <<>> /\ bottom = <<>> -> top
           [] top = <<>> /\ bottom # <<>> -> bottom
           [] OTHER -> <<"Fresh meme from snagg.meme (U+1F525)">>

C16_TopCaptionOnly ==
  /\ pc = "gen_return"
  /\ generated # NULL
  /\ response.top = <<"A", "%", "2", "0", "B">>
  /\ response.bottom = Undefined
  /\ generated.text = <<"A", " ", "B">>

\* C17: a non-null result of fetchGeneratedMeme or of fetchRandomMeme has a
\* text of at least one character.
C17_SuccessHasText ==
  /\ (pc = "gen_return" /\ generated # NULL) =>
       generated.text # Undefined /\ Len(generated.text) >= 1
  /\ (pc = "rand_return" /\ random # NULL) =>
       random.text # Undefined /\ Len(random.text) >= 1

C17_UntitledUntagged ==
  /\ pc = "rand_return"
  /\ random # NULL
  /\ meme.title = <<>>
  /\ meme.tags = <<>>

\* The text the random strategy is to produce from a title and the tags of
\* listing entry m: the title, then, if there is a tag, a blank line and the
\* first three tags at most, each without whitespace and with a leading #,
\* separated by single spaces.
TitleAndTags(title, m) ==
  LET n == IF m.tagsKind # "array" THEN 0
           ELSE IF Len(m.tags) > 3 THEN 3 ELSE Len(m.tags)
      Tag(i) == <<"#">> \o SelectSeq(m.tags[i], LAMBDA c : c \notin Whitespace)
  IN CASE n = 0 -> title
       [] n = 1 -> title \o <<"\n\n">> \o Tag(1)
       [] n = 2 -> title \o <<"\n\n">> \o Tag(1) \o <<" ">> \o Tag(2)
       [] n = 3 -> title \o <<"\n\n">> \o Tag(1) \o <<" ">> \o Tag(2) \o <<" ">> \o Tag(3)

\* C18 (as stated): the text of a random meme is the item's title followed by
\* the rendered tags, if any.
C18_TextIsTitleThenTags ==
  (pc = "rand_return" /\ random # NULL) =>
    random.text = TitleAndTags(IF meme.title = Undefined THEN <<>> ELSE meme.title, meme)

\* C18 (amended): the text of a random meme is the item's title, or the fixed
\* string "Fresh meme from snagg.meme" when the title is empty or missing,
\* followed by the rendered tags, if any.
C18_TextIsTitleOrDefaultThenTags ==
  (pc = "rand_return" /\ random # NULL) =>
    random.text =
      TitleAndTags(IF meme.title \in {Undefined, <<>>}
                   THEN <<"Fresh meme from snagg.meme">>
                   ELSE meme.title, meme)

C18_UntitledWithFourTags ==
  /\ pc = "rand_return"
  /\ random # NULL
  /\ meme.title = Undefined
  /\ Len(meme.tags) = 4
  /\ random.text = <<"Fresh meme from snagg.meme", "\n\n",
                     "#", "a", "b", " ", "#", "c", " ", "#", "a", "b">>

\* C19: the imageAlt of a random meme is ai_alt_text when that is present and
\* non-empty, else description when that is present and non-empty, else the
\* title.
C19_AltTextTiers ==
  (pc = "rand_return" /\ random # NULL) =>
    LET present(f) == f # Undefined /\ f # <<>>
    IN /\ present(meme.ai_alt_text) => random.imageAlt = meme.ai_alt_text
       /\ (~present(meme.ai_alt_text) /\ present(meme.description)) =>
            random.imageAlt = meme.description
       /\ (~present(meme.ai_alt_text) /\ ~present(meme.description)) =>
            random.imageAlt = meme.title

C19_DescriptionTier ==
  /\ pc = "rand_return"
  /\ random # NULL
  /\ meme.ai_alt_text = <<>>
  /\ meme.description = <<"D">>
  /\ random.imageAlt = <<"D">>

\* C20: the imageAlt of a generated meme is "Meme", then "(template)" if the
\* decoded template header is non-empty, then Top text: "top" if the top
\* caption is non-empty, then Bottom text: "bottom" if the bottom caption is
\* non-empty, in this order and separated by " - "; with no header it is
\* "Meme".
C20_GeneratedAlt ==
  (pc = "gen_return" /\ generated # NULL) =>
    LET top == decodeURIComponent(Or(response.top, <<>>))
        bottom == decodeURIComponent(Or(response.bottom, <<>>))
        template == decodeURIComponent(Or(response.template, <<>>))
    IN /\ generated.imageAlt =
            <<"Meme">>
            \o (IF template # <<>> THEN <<" - ", "(">> \o template \o <<")">> ELSE <<>>)
            \o (IF top # <<>> THEN <<" - ", "Top text: \"">> \o top \o <<"\"">> ELSE <<>>)
            \o (IF bottom # <<>> THEN <<" - ", "Bottom text: \"">> \o bottom \o <<"\"">> ELSE <<>>)
       /\ (response.top = Undefined /\ response.bottom = Undefined
           /\ response.template = Undefined) => generated.imageAlt = <<"Meme">>

C20_AllThreeHeaders ==
  /\ pc = "gen_return"
  /\ generated # NULL
  /\ response.template = <<"A">>
  /\ response.top = <<"A", "%", "2", "0", "B">>
  /\ response.bottom = <<"A">>
  /\ generated.imageAlt = <<"Meme", " - ", "(", "A", ")", " - ", "Top text: \"", "A", " ", "B",
                            "\"", " - ", "Bottom text: \"", "A", "\"">>

\* Requests that have been issued and not yet answered.
InFlight == {i \in 1..Len(trace) : trace[i].result = "pending"}

\* C21: at most one network operation is in flight at any time: a request is
\* issued only when every earlier one has been answered, and the listing
\* request of the random strategy only when the generate request has been.
C21_OneOperationAtATime ==
  /\ Cardinality(InFlight) <= 1
  /\ \A i \in InFlight : i = Len(trace)
  /\ \A j \in Ops({"listing"}) : \A i \in Ops({"generate"}) :
       i < j => trace[i].result # "pending"

\* Error reports of function f with one of the given causes, written before
\* request number n was issued.
ReportedBefore(f, causes, n) ==
  \E k \in 1..Len(log) :
    /\ log[k].level = "error"
    /\ log[k].by = f
    /\ log[k].what \in causes
    /\ log[k].at < n

\* C22: in the chained getPostText a failure of the generate strategy has
\* been reported with its cause before the listing request of the random
\* strategy is issued, and a failure of the random strategy before the fixed
\* fallback is returned; when the error body of a non-2xx generate response
\* cannot be read, the failure is still reported, fetchGeneratedMeme still
\* returns null and the random strategy still runs next.
C22_FailuresReportedFirst ==
  (variant = "chained" /\ phase = "first") =>
    /\ \A j \in Ops({"listing"}) :
         ReportedBefore("fetchGeneratedMeme", {"status", "exception"}, j)
    /\ (pc = "gen_return" /\ generated = NULL) =>
         /\ ReportedBefore("fetchGeneratedMeme", {"status", "exception"}, Len(trace) + 1)
         /\ log[Len(log)].what =
              (IF response.kind = "notOk" /\ response.textOk THEN "status" ELSE "exception")
    /\ (pc = "gen_return" /\ response.kind = "notOk") => generated = NULL
    /\ (pc = "rand_return" /\ random = NULL) =>
         ReportedBefore("fetchRandomMeme", {"status", "exception", "noMemes"}, Len(trace) + 1)
    /\ (pc = "gpt_return" /\ postData = FallbackChained) =>
         /\ ReportedBefore("fetchGeneratedMeme", {"status", "exception"}, Len(trace) + 1)
         /\ ReportedBefore("fetchRandomMeme", {"status", "exception", "noMemes"}, Len(trace) + 1)
         /\ log[Len(log)].what = "bothFailed"

C22_UnreadableErrorBodyThenRandom ==
  /\ variant = "chained"
  /\ phase = "first"
  /\ pc = "rand_fetch"
  /\ \E i \in Ops({"generate"}) : trace[i].result = "notOk"
  /\ log[1].what = "exception"

\* C23: an entry-script run that ends without a published post ends with a
\* non-zero exit status, and one that ends with exit status zero has
\* published a post and printed its address.
C23_ExitStatusTellsOutcome ==
  (runner \in {"index", "indexFallback"} /\ pc = "exit") =>
    /\ exit \in {"ok", "fail"}
    /\ Published = {} => exit = "fail"
    /\ exit = "ok" =>
         /\ Published # {}
         /\ out # Undefined
         /\ \E k \in 1..Len(log) : log[k].level = "log" /\ log[k].detail = out

C23_AddressPrinted ==
  /\ runner = "index"
  /\ pc = "exit"
  /\ exit = "ok"
  /\ log[Len(log)].what = "posted"
  /\ log[Len(log)].detail = <<"at://uri">>

\* C24: the generate and listing requests carry X-API-Key, with the
\* configured key, exactly when a key is configured; the image download
\* never carries it.
C24_ApiKeyOnlyToContentApi ==
  /\ \A i \in Ops({"generate", "listing"}) :
       IF env.SNAGG_API_KEY \in {Undefined, <<>>}
       THEN trace[i].key = Undefined
       ELSE trace[i].key = env.SNAGG_API_KEY
  /\ \A i \in Ops({"image"}) : trace[i].key = Undefined

C24_KeyedListingThenDownload ==
  /\ env.SNAGG_API_KEY = <<"k">>
  /\ \E i \in Ops({"listing"}) : trace[i].key = <<"k">>
  /\ \E i \in Ops({"generate"}) : trace[i].key = <<"k">>
  /\ Ops({"image"}) # {}

\* The listing request of the fetchRandomMeme call that is running or has
\* just returned.
LastListing == CHOOSE j \in Ops({"listing"}) : \A k \in Ops({"listing"}) : k <= j

UrlListingOk(resp) ==
  /\ "jsonOk" \in DOMAIN resp
  /\ resp.kind = "ok"
  /\ resp.jsonOk
  /\ resp.error = Undefined
  /\ resp.hasMemes
  /\ resp.memes # <<>>

\* C26 (as stated): for a successful listing the URL-returning getPostText
\* returns exactly text = title, imageUrl = watermarked_image_url if present,
\* else image_url, imageAlt = alt_text, else description, else title, and
\* externalUrl = "https://snagg.meme/meme/" + slug.
C26_UrlRecordFromTitle ==
  (variant = "random" /\ pc = "gpt_return" /\ UrlListingOk(response)) =>
    LET m == response.memes[1]
        present(f) == f # Undefined /\ f # <<>>
    IN postData =
         [text |-> m.title,
          imageUrl |-> IF present(m.watermarked_image_url)
                       THEN m.watermarked_image_url ELSE m.image_url,
          imageAlt |-> IF present(m.alt_text) THEN m.alt_text
                       ELSE IF present(m.description) THEN m.description
                       ELSE m.title,
          externalUrl |-> <<"https://snagg.meme/meme/">> \o m.slug]

\* C26 (amended): as stated, except that for an entry whose title is empty
\* or missing text is "Check out this meme from snagg.meme!" and the last
\* tier of imageAlt is "Meme from snagg.meme".
C26_UrlRecordWithDefaults ==
  (variant = "random" /\ pc = "gpt_return" /\ UrlListingOk(response)) =>
    LET m == response.memes[1]
        present(f) == f # Undefined /\ f # <<>>
    IN postData =
         [text |-> IF present(m.title) THEN m.title
                   ELSE <<"Check out this meme from snagg.meme!">>,
          imageUrl |-> IF present(m.watermarked_image_url)
                       THEN m.watermarked_image_url ELSE m.image_url,
          imageAlt |-> IF present(m.alt_text) THEN m.alt_text
                       ELSE IF present(m.description) THEN m.description
                       ELSE IF present(m.title) THEN m.title
                       ELSE <<"Meme from snagg.meme">>,
          externalUrl |-> <<"https://snagg.meme/meme/">> \o m.slug]

C26_WatermarkedUntitled ==
  /\ variant = "random"
  /\ pc = "gpt_return"
  /\ UrlListingOk(response)
  /\ response.memes[1].watermarked_image_url = <<"https://cdn/watermarked">>
  /\ response.memes[1].title = <<>>
  /\ postData.imageUrl = <<"https://cdn/watermarked">>
  /\ postData.text = <<"Check out this meme from snagg.meme!">>

AfterFirstAttempt ==
  {j \in 1..Len(trace) :
     \E k \in 1..Len(log) : log[k].what = "postFailed" /\ log[k].at < j}

\* C28: in the entry script with the last-resort fallback at most two post
\* submissions are attempted; after the first attempt threw, one
\* fetchRandomMeme call follows (one listing request, no generate request)
\* and at most one call of post; when fetchRandomMeme returned null or that
\* post threw, the run ends with exit status 1 and nothing published.
C28_OneLastResortAttempt ==
  runner = "indexFallback" =>
    /\ Cardinality(Ops({"post"})) <= 2
    /\ phase = "first" => Cardinality(Ops({"detectFacets"})) <= 1
    /\ phase = "fallback" =>
         LET Later(kind) == Cardinality(AfterFirstAttempt \cap Ops({kind}))
             postThrew == \E j \in AfterFirstAttempt :
                            /\ trace[j].op \in {"detectFacets", "postImage", "uploadBlob", "post"}
                            /\ trace[j].result \in {"reject", "notOk"}
         IN /\ Later("listing") = 1
            /\ Later("generate") = 0
            /\ Later("image") <= 1
            /\ Later("detectFacets") <= 1
            /\ Later("post") <= 1
            /\ \A j \in Published : j \in AfterFirstAttempt
            /\ (pc \in {"post_call", "post_facets", "post_submit"}) => random # NULL
            /\ (pc = "exit" /\ (random = NULL \/ postThrew)) =>
                 /\ exit = "fail"
                 /\ Published = {}
                 /\ (random = NULL => Later("detectFacets") = 0)

C28_LastResortFoundNothing ==
  /\ runner = "indexFallback"
  /\ phase = "fallback"
  /\ pc = "exit"
  /\ exit = "fail"
  /\ random = NULL
  /\ log[Len(log)].what = "fallbackFailed"

\* Requests of the getPostText call of the run: those before the first call
\* of post.
GetPostTextRequests ==
  {j \in Ops({"generate", "listing", "image"}) :
     \A k \in Ops({"detectFacets"}) : j < k}

\* C29: if every step that can be taken is taken, an entry-script run ends,
\* either with a published post or with a failure; throughout, the one
\* getPostText call has issued at most three requests (at most one generate,
\* one listing, one image download) and the run at most ten requests, with
\* at most two listing requests and two calls of post.
C29_RunTerminates ==
  /\ (runner \in {"index", "indexFallback"}) =>
       <>(pc = "exit" /\ (exit = "fail" \/ (exit = "ok" /\ Published # {})))
  /\ [](runner \in {"index", "indexFallback"} =>
          /\ Cardinality(GetPostTextRequests) <= 3
          /\ \A kind \in {"generate", "listing", "image"} :
               Cardinality(GetPostTextRequests \cap Ops({kind})) <= 1
          /\ Cardinality(Ops({"generate"})) <= 1
          /\ Cardinality(Ops({"listing"})) <= 2
          /\ Cardinality(Ops({"detectFacets"})) <= 2
          /\ Len(trace) <= 10)

C29_ThreeRequestsThenPublished ==
  /\ runner = "indexFallback"
  /\ pc = "exit"
  /\ exit = "ok"
  /\ phase = "first"
  /\ Cardinality(GetPostTextRequests) = 3
  /\ Published # {}

\* Requests issued by the call of post that is running or has just returned.
ThisCall(kinds) ==
  {j \in Ops(kinds) : \A k \in Ops({"detectFacets"}) : k < j}

\* C30: when Bot.post submits a record with an image embed, one uploadBlob
\* per image has been issued in that call and was answered before the record
\* was submitted, each image of the embed is the blob handle that upload
\* returned, and the call submits the record once.
C30_UploadThenSubmitOnce ==
  /\ (runner \in PostDataRunners /\ pc \in {"post_submit", "post_return"}) =>
       /\ Cardinality(ThisCall({"post"})) = 1
       /\ ("embed" \in DOMAIN record /\ record.embed.type = "app.bsky.embed.images") =>
            /\ Cardinality(ThisCall({"uploadBlob"})) = Len(record.embed.images)
            /\ \A u \in ThisCall({"uploadBlob"}) :
                 trace[u].result = "ok" /\ \A p \in ThisCall({"post"}) : u < p
            /\ record.embed.images[1].image = uploadResponse(Len(uploads)).data.blob
  /\ (runner = "postV1" /\ pc \in {"p1_submit", "post_return"}) =>
       /\ Cardinality(Ops({"post"})) = 1
       /\ ("embed" \in DOMAIN record /\ record.embed.type = "app.bsky.embed.image") =>
            /\ Cardinality(Ops({"uploadBlob"})) = Len(record.embed.images)
            /\ \A u \in Ops({"uploadBlob"}) :
                 trace[u].result = "ok" /\ \A p \in Ops({"post"}) : u < p
            /\ \A i \in 1..Len(record.embed.images) :
                 record.embed.images[i].image = uploadResponse(tasks[i].upload).data.blob

\* What a record carries besides its text.
MediaFields == {"imageBuffer", "imageAlt", "imageMimeType"}

\* C31: the record the chained getPostText returns (and the one the
\* last-resort fallback takes from fetchRandomMeme) is never partially
\* populated: either it has a text, image bytes and a MIME type, all set, or
\* it is the text alone, with no media field; bytes without a MIME type, and
\* a MIME type or alt text without bytes, do not occur.
C31_NeverPartiallyPopulated ==
  (variant = "chained" /\ postData # NULL) =>
    /\ "text" \in DOMAIN postData
    /\ Truthy(postData.text)
    /\ \/ DOMAIN postData \cap MediaFields = {}
       \/ /\ MediaFields \subseteq DOMAIN postData
          /\ postData.imageBuffer \in {"generatedBytes", "randomBytes"}
          /\ Truthy(postData.imageMimeType)
    /\ (DOMAIN postData \cap MediaFields = {}) <=> (postData = FallbackChained)

C31_BytesWithoutAltText ==
  /\ variant = "chained"
  /\ pc = "gpt_return"
  /\ postData # NULL
  /\ "imageBuffer" \in DOMAIN postData
  /\ postData.imageBuffer = "randomBytes"
  /\ ~Truthy(postData.imageAlt)
  /\ postData.imageMimeType = <<"image/webp">>

\* Bot.run of either class.
BotRuns == {"BotRun", "BotRunV1"}

\* The requests by which a run of Bot.run fetches its content.
ContentOps ==
  IF runner = "BotRunV1" THEN Ops({"getPostText"})
  ELSE Ops({"generate", "listing", "image"})

PublishOps == Ops({"detectFacets", "postImage", "uploadBlob", "post"})

\* getPostText has returned to Bot.run.
ContentFetched ==
  IF runner = "BotRunV1"
  THEN response # NoResponse /\ "text" \in DOMAIN response
  ELSE postData # NULL /\ pc \notin {"gen_fetch", "gen_return", "rand_fetch", "rand_image",
                                     "rand_return", "g2_fetch", "u_fetch"}

\* The text getPostText resolved with.
ContentText == IF runner = "BotRunV1" THEN response.text ELSE postData.text

\* The text Bot.run works with: the record-dispatching class trims it.
RunText == IF runner = "BotRunV1" THEN trim(response.text) ELSE postData.text

LoggedInFirst ==
  /\ Cardinality(Ops({"login"})) = 1
  /\ \A i \in Ops({"login"}) :
       /\ trace[i].result = "ok"
       /\ \A j \in ContentOps \cup PublishOps : i < j

\* C32 as stated: in Bot.run with dryRun set nothing is uploaded or
\* submitted, and a run that ends well has logged in, fetched the content
\* and returns the content text; with dryRun unset post is called once,
\* with the fetched content.
C32_DryRunReturnsContentText ==
  /\ (runner \in BotRuns /\ dryRun) =>
       /\ PublishOps = {}
       /\ uploads = <<>>
       /\ posts = <<>>
       /\ (pc = "exit" /\ exit = "ok") =>
            /\ LoggedInFirst
            /\ ContentOps # {}
            /\ ContentFetched
            /\ out = ContentText
  /\ (runner \in BotRuns /\ ~dryRun) =>
       /\ Cardinality(Ops({"detectFacets"})) <= 1
       /\ Cardinality(Ops({"post"})) <= 1
       /\ PublishOps # {} => ContentFetched /\ LoggedInFirst
       /\ (pc = "exit" /\ ContentFetched) => Cardinality(Ops({"detectFacets"})) = 1
       /\ \A i \in 1..Len(posts) : posts[i].text = ContentText

\* C32 (amended): the same, where the text returned by a dry run and the
\* text given to post is the content text trimmed of surrounding whitespace
\* in the record-dispatching class, and the content text itself in the other.
C32_DryRunReturnsRunText ==
  /\ (runner \in BotRuns /\ dryRun) =>
       /\ PublishOps = {}
       /\ uploads = <<>>
       /\ posts = <<>>
       /\ (pc = "exit" /\ exit = "ok") =>
            /\ LoggedInFirst
            /\ ContentOps # {}
            /\ ContentFetched
            /\ out = RunText
  /\ (runner \in BotRuns /\ ~dryRun) =>
       /\ Cardinality(Ops({"detectFacets"})) <= 1
       /\ Cardinality(Ops({"post"})) <= 1
       /\ PublishOps # {} => ContentFetched /\ LoggedInFirst
       /\ (pc = "exit" /\ ContentFetched) => Cardinality(Ops({"detectFacets"})) = 1
       /\ \A i \in 1..Len(posts) : posts[i].text = RunText

C32_DryRunOfPaddedText ==
  /\ runner = "BotRunV1"
  /\ dryRun
  /\ pc = "exit"
  /\ exit = "ok"
  /\ response.text = <<" ", "hello", "\n">>
  /\ out = <<"hello">>
  /\ posts = <<>>

\* The type the response to an image download announces, or the default.
TypeOr(default) ==
  IF Truthy(response.contentType) THEN response.contentType ELSE default

Absent(pd, k) == k \notin DOMAIN pd \/ pd[k] = Undefined

\* C33: the MIME type of the image is the Content-Type header of the
\* response when there is one and otherwise "image/webp" for the bytes of
\* fetchGeneratedMeme and fetchRandomMeme and "image/jpeg" for the blob
\* Bot.post builds from imageUrl; the title and the description of an
\* external embed are the empty string when the PostData has none.
C33_MimeTypeAndEmbedDefaults ==
  /\ (pc = "gen_return" /\ generated # NULL) =>
       generated.imageMimeType = TypeOr(<<"image/webp">>)
  /\ (pc = "rand_return" /\ random # NULL) =>
       random.imageMimeType = TypeOr(<<"image/webp">>)
  /\ (runner \in PostDataRunners /\ pc = "post_upload") =>
       uploads[Len(uploads)].type = TypeOr(<<"image/jpeg">>)
  /\ (runner \in PostDataRunners /\ pc \in {"post_submit", "post_return"}
        /\ "embed" \in DOMAIN record
        /\ record.embed.type = "app.bsky.embed.external") =>
       /\ record.embed.external.title =
            (IF Absent(postData, "externalTitle") THEN <<>>
             ELSE postData.externalTitle)
       /\ record.embed.external.description =
            (IF Absent(postData, "externalDescription") THEN <<>>
             ELSE postData.externalDescription)

C33_UntypedDownloadUploadedAsJpeg ==
  /\ runner \in PostDataRunners
  /\ pc = "post_upload"
  /\ response.contentType = Undefined
  /\ uploads[Len(uploads)].type = <<"image/jpeg">>

====
